---- MODULE Spec2Model ----
(***************************************************************************)
(* Smart plant controller (rrjmac026/server): the control loop of the two  *)
(* firmware builds kept in the repository,                                 *)
(*   "ESP32"       src/ESP32.cpp            (single-file sketch)           *)
(*   "esp32_codes" src/esp32_codes/*.cpp    (modularized sketch)           *)
(* One action per function the loop calls; pc is the position in loop().   *)
(* Time is the millis() counter in units of 8 ms, so that the 32-bit       *)
(* counter (2^32 ms) is 2^29 units and every interval of the source is a   *)
(* whole number of units.                                                  *)
(***************************************************************************)
EXTENDS Integers, Sequences, FiniteSets, TLC

\* ---------------------------------------------------------------- bounds
MaxTicks == 4

MaxAutoTicks == 2
MaxWrapTicks == 3
MaxDrainTicks == 14
MaxRunTicks == 6

\* ------------------------------------------------------ program constants
MsPerUnit == 2^3
Ms(x) == x \div MsPerUnit
UINT32 == 2^29
dryThreshold == 60
disconnectedThreshold == 95
waterOnDuration == Ms(30000)
fertilizerOnDuration == Ms(50000)
defaultWaterDuration == Ms(30000)
defaultFertilizerDuration == Ms(50000)
numPhones == 2
MAX_SMS_RETRIES == 3
SMS_RETRY_INTERVAL == Ms(10000)
GSM_RETRY_INTERVAL == Ms(60000)
POLLING_INTERVAL == Ms(30000)
READ_INTERVAL_ESP32 == Ms(30000)
READ_INTERVAL == Ms(25000)
MINUTE == Ms(60000)
defaultThreshold == 60

\* unsigned 32-bit arithmetic of millis()
Sub32(a, b) == (a - b) % UINT32
Add32(a, b) == (a + b) % UINT32

\* ------------------------------------------------------------ wall clock
\* getLocalTime(): setup() restarts the board until the time is synchronized, so
\* in loop() the call succeeds; the RTC runs with millis(). The loop starts on
\* a Monday, the 1st of the month, at 07:59:30.
BootMinute == (7 * 60) + 59
BootOffset == Ms(30000)
DayNames == <<"Monday", "Tuesday", "Wednesday", "Thursday", "Friday", "Saturday", "Sunday">>
CalMinute(m) == BootMinute + ((m + BootOffset) \div MINUTE)
tm_min(m) == CalMinute(m) % 60
tm_hour(m) == (CalMinute(m) \div 60) % 24
tm_mday(m) == ((CalMinute(m) \div 1440) % 31) + 1
tm_wdayName(m) == DayNames[((CalMinute(m) \div 1440) % 7) + 1]

Digit(n) == <<"0", "1", "2", "3", "4", "5", "6", "7", "8", "9">>[n + 1]
\* strftime(.., "%H:%M", ..)
FormatHM(m) == Digit(tm_hour(m) \div 10) \o Digit(tm_hour(m) % 10) \o ":" \o Digit(tm_min(m) \div 10) \o Digit(tm_min(m) % 10)

\* String::equalsIgnoreCase on the weekday spellings the server sends
ToLower(s) ==
    CASE s \in {"Monday", "MONDAY", "monday"} -> "monday"
      [] s \in {"Tuesday", "TUESDAY", "tuesday"} -> "tuesday"
      [] s \in {"Wednesday", "WEDNESDAY", "wednesday"} -> "wednesday"
      [] s \in {"Thursday", "THURSDAY", "thursday"} -> "thursday"
      [] s \in {"Friday", "FRIDAY", "friday"} -> "friday"
      [] s \in {"Saturday", "SATURDAY", "saturday"} -> "saturday"
      [] s \in {"Sunday", "SUNDAY", "sunday"} -> "sunday"
      [] OTHER -> s
equalsIgnoreCase(a, b) == ToLower(a) = ToLower(b)

\* String::toInt(): the leading decimal digits of the id, 0 when there are none.
\* An id is a sequence of characters.
DigitVal(c) ==
    CASE c = "0" -> 0 [] c = "1" -> 1 [] c = "2" -> 2 [] c = "3" -> 3 [] c = "4" -> 4
      [] c = "5" -> 5 [] c = "6" -> 6 [] c = "7" -> 7 [] c = "8" -> 8 [] c = "9" -> 9
      [] OTHER -> -1
RECURSIVE toIntFrom(_, _, _)
toIntFrom(id, i, acc) ==
    IF i > Len(id) \/ DigitVal(id[i]) < 0 THEN acc
    ELSE toIntFrom(id, i + 1, (acc * 10) + DigitVal(id[i]))
toInt(id) == toIntFrom(id, 1, 0)

\* --------------------------------------------------- schedules (inputs)
\* What the schedule endpoint can answer with. MongoDB ids are hex strings.
NoDays == <<>>
wAuto == [id |-> <<"6", "5", "a", "1">>, type |-> "watering", time |-> "08:00", duration |-> 1,
          enabled |-> TRUE, days |-> <<"monday">>, moistureThreshold |-> 70,
          moistureMode |-> "auto", calendarDays |-> NoDays]
wManual == [id |-> <<"6", "5", "a", "2">>, type |-> "watering", time |-> "08:01", duration |-> 2,
            enabled |-> TRUE, days |-> <<"Sunday", "Monday">>, moistureThreshold |-> 40,
            moistureMode |-> "manual", calendarDays |-> NoDays]
fMonthly == [id |-> <<"6", "5", "b", "3">>, type |-> "fertilizing", time |-> "08:00", duration |-> 1,
             enabled |-> TRUE, days |-> NoDays, moistureThreshold |-> 60,
             moistureMode |-> "manual", calendarDays |-> <<15, 1>>]
wOff == [id |-> <<"c", "4">>, type |-> "watering", time |-> "08:00", duration |-> 1,
         enabled |-> FALSE, days |-> <<"Monday">>, moistureThreshold |-> 60,
         moistureMode |-> "manual", calendarDays |-> NoDays]
fSecond == [id |-> <<"7", "f">>, type |-> "fertilizing", time |-> "08:00", duration |-> 2,
            enabled |-> TRUE, days |-> NoDays, moistureThreshold |-> 60,
            moistureMode |-> "manual", calendarDays |-> <<1>>]
fWeekly == [id |-> <<"9", "e">>, type |-> "fertilizing", time |-> "08:00", duration |-> 1,
            enabled |-> TRUE, days |-> <<"Monday">>, moistureThreshold |-> 60,
            moistureMode |-> "manual", calendarDays |-> NoDays]
ScheduleLists == {<<wAuto, fMonthly, fWeekly>>, <<wOff, fSecond, fMonthly, wManual, wAuto>>}
AllIds == {wAuto.id, wManual.id, fMonthly.id, wOff.id, fSecond.id, fWeekly.id}

\* moisture percentages the sensor conversion can deliver
Moistures == {65, 80, 96}
\* time from one loop iteration to the next (the modem, the HTTP client and
\* WiFi.reconnect() block the loop for seconds)
LoopTimes == {Ms(5000), Ms(30000)}
SendOutcomes == {"Success", "SoftFailure", "HardFailure"}

VARIABLES
    build, pc, tick, millis, currentMillis,
    moisturePercent, lastReadTime,
    schedules, triggeredSchedules, currentMinute, isScheduledDate, lastPollTime,
    waterState, previousWaterMillis, waterRelayPin,
    fertilizerState, previousFertilizerMillis, fertilizerRelayPin,
    gsmStatus, lastGSMRetry, lastSMSAttempt, smsQueue,
    nextSeq, departed, attemptAt, waterRun, fertilizerDue, fireMinute, fireCount, recoveries, ev

clockVars == <<tick, millis, currentMillis>>
sensorVars == <<moisturePercent, lastReadTime>>
scheduleVars == <<schedules, triggeredSchedules, currentMinute, isScheduledDate, lastPollTime>>
waterVars == <<waterState, previousWaterMillis, waterRelayPin>>
fertVars == <<fertilizerState, previousFertilizerMillis, fertilizerRelayPin>>
gsmVars == <<gsmStatus, lastGSMRetry, lastSMSAttempt>>
ghostVars == <<nextSeq, departed, attemptAt, waterRun, fertilizerDue, fireMinute, fireCount, recoveries>>
vars == <<build, pc, clockVars, sensorVars, scheduleVars, waterVars, fertVars, gsmVars, smsQueue, ghostVars, ev>>

\* ------------------------------------------------------------------ Init
\* The globals as their initializers leave them, before setup() runs.
Init ==
    /\ build \in {"ESP32", "esp32_codes"}
    /\ pc = "setup"
    /\ tick = 0 /\ millis = 0 /\ currentMillis = 0
    /\ moisturePercent = 0 /\ lastReadTime = 0
    /\ schedules = <<>> /\ triggeredSchedules = {} /\ currentMinute = -1
    /\ isScheduledDate = FALSE /\ lastPollTime = 0
    /\ waterState = FALSE /\ previousWaterMillis = 0 /\ waterRelayPin = "LOW"
    /\ fertilizerState = FALSE /\ previousFertilizerMillis = 0 /\ fertilizerRelayPin = "LOW"
    /\ gsmStatus = "GSM_WAITING" /\ lastGSMRetry = 0 /\ lastSMSAttempt = 0
    /\ smsQueue = <<>>
    /\ nextSeq = 1 /\ departed = 0 /\ attemptAt = -1
    /\ waterRun = [what |-> "none", reason |-> "none", moisture |-> -1, arg |-> -1]
    /\ fertilizerDue = 0
    /\ fireMinute = -1 /\ fireCount = [i \in AllIds |-> 0]
    /\ recoveries = <<>>
    /\ ev = [op |-> "init"]

\* the order of the calls in loop()
NextPc(b, p) ==
    IF b = "ESP32"
    THEN CASE p = "loop" -> "sensors" [] p = "sensors" -> "water" [] p = "water" -> "fertilizer"
           [] p = "fertilizer" -> "gsm" [] p = "gsm" -> "sms" [] p = "sms" -> "poll"
           [] p = "poll" -> "sched" [] p = "sched" -> "loop"
    ELSE CASE p = "loop" -> "sensors" [] p = "sensors" -> "poll" [] p = "poll" -> "sched"
           [] p = "sched" -> "gsm" [] p = "gsm" -> "sms" [] p = "sms" -> "loop"

\* ------------------------------------------------------------ GSM session
\* initGSM(): the handshake; ok is the modem's answer to the whole dialogue.
initGSM(ok) == IF ok THEN "GSM_READY" ELSE "GSM_ERROR"

\* a setup that leaves the water relay energized
initRelays_WaterOn == [pinW |-> "HIGH", pinF |-> "LOW"]

\* initRelays() / the digitalWrite calls of setup(): both relay outputs LOW
initRelays == [pinW |-> "LOW", pinF |-> "LOW"]

\* setup(): relays off, then the first handshake.
Setup ==
    /\ pc = "setup"
    /\ \E ok \in BOOLEAN : gsmStatus' = initGSM(ok)
    /\ waterRelayPin' = initRelays.pinW /\ fertilizerRelayPin' = initRelays.pinF
    /\ pc' = "loop"
    /\ ev' = [op |-> "setup"]
    /\ UNCHANGED <<build, clockVars, sensorVars, scheduleVars, waterState, previousWaterMillis,
                   fertilizerState, previousFertilizerMillis, lastGSMRetry, lastSMSAttempt,
                   smsQueue, ghostVars>>

\* a drain step that does not look at the session
NotReady_Never(status) == FALSE

\* a gate that only holds back a session that never had a handshake
NotReady_WaitingOnly(status) == status = "GSM_WAITING"

\* gsmStatus != GSM_READY
NotReady(status) == status # "GSM_READY"

\* a recovery without cooldown
RecoveryDue_NoCooldown(status, now, lastRetry) == status = "GSM_ERROR"

\* a recovery that does not look at the session state
RecoveryDue_AnyStatus(status, now, lastRetry) ==
    Sub32(now, lastRetry) >= GSM_RETRY_INTERVAL

\* the condition under which checkGSMStatus() runs a recovery handshake
RecoveryDue(status, now, lastRetry) ==
    status = "GSM_ERROR" /\ Sub32(now, lastRetry) >= GSM_RETRY_INTERVAL

\* checkGSMStatus(). Sets gsmStatus, lastGSMRetry and the ghost recoveries
\* (the times at which a recovery handshake was run, in order).
checkGSMStatus(ok) ==
    IF RecoveryDue(gsmStatus, millis, lastGSMRetry)
    THEN /\ gsmStatus' = initGSM(ok)
         /\ lastGSMRetry' = millis
         /\ recoveries' = Append(recoveries, millis)
    ELSE UNCHANGED <<gsmStatus, lastGSMRetry, recoveries>>

\* what a call of checkGSMStatus() did, for the ghost record ev
RecoveryInfo ==
    [ran |-> Len(recoveries') > Len(recoveries),
     status |-> gsmStatus,
     since |-> Sub32(millis, lastGSMRetry)]

CheckGSMStatus ==
    /\ pc = "gsm"
    /\ \E ok \in BOOLEAN : checkGSMStatus(ok)
    /\ pc' = NextPc(build, pc)
    /\ ev' = [op |-> "gsm", entry |-> gsmStatus,
              recovery |-> RecoveryInfo]
    /\ UNCHANGED <<build, clockVars, sensorVars, scheduleVars, waterVars, fertVars,
                   lastSMSAttempt, smsQueue, nextSeq, departed, attemptAt, waterRun, fertilizerDue,
                   fireMinute, fireCount>>

\* ------------------------------------------------------------- SMS queue
\* a queue that takes new messages at its front
queueSMS_AtFront(q, text, seq) ==
    <<[message |-> text, retries |-> 0, nextAttempt |-> millis, seq |-> seq, tries |-> 0]>> \o q

\* an enqueue that makes the message wait one retry interval
queueSMS_Delayed(q, text, seq) ==
    Append(q, [message |-> text, retries |-> 0, nextAttempt |-> Add32(millis, SMS_RETRY_INTERVAL),
               seq |-> seq, tries |-> 0])

\* queueSMS(): seq and tries are ghost fields (order of arrival, number of
\* drain attempts that handed the message to sendSMS).
queueSMS(q, text, seq) ==
    Append(q, [message |-> text, retries |-> 0, nextAttempt |-> millis, seq |-> seq, tries |-> 0])

\* a send that leaves the session Ready after a hard failure
sendSMS_NoError(status, out) ==
    IF NotReady(status) THEN [sent |-> FALSE, success |-> FALSE, status |-> status]
    ELSE IF out = "Success" THEN [sent |-> TRUE, success |-> TRUE, status |-> status]
    ELSE [sent |-> TRUE, success |-> FALSE, status |-> status]

\* sendSMS(): out is what the modem does with this message for this recipient.
sendSMS(status, out) ==
    IF NotReady(status) THEN [sent |-> FALSE, success |-> FALSE, status |-> status]
    ELSE IF out = "Success" THEN [sent |-> TRUE, success |-> TRUE, status |-> status]
    ELSE IF out = "HardFailure" THEN [sent |-> TRUE, success |-> FALSE, status |-> "GSM_ERROR"]
    ELSE [sent |-> TRUE, success |-> FALSE, status |-> status]

\* the recipient loop of processSMSQueue(); calls lists the recipients sendSMS
\* addressed the modem for, with the outcome.
RECURSIVE SendLoop(_, _, _, _)
SendLoop(i, status, outs, calls) ==
    IF i > numPhones THEN [success |-> FALSE, status |-> status, calls |-> calls]
    ELSE LET r == sendSMS(status, outs[i])
             c == IF r.sent THEN Append(calls, <<i, outs[i]>>) ELSE calls
         IN IF r.success THEN [success |-> TRUE, status |-> r.status, calls |-> c]
            ELSE IF r.status = "GSM_ERROR" THEN [success |-> FALSE, status |-> r.status, calls |-> c]
            ELSE SendLoop(i + 1, r.status, outs, c)

\* a cap that drops the message one attempt earlier
PopHead_OneEarlier(success, retries) == success \/ retries + 1 >= MAX_SMS_RETRIES

\* success || sms.retries >= MAX_SMS_RETRIES
PopHead_SuccessOnly(success, retries) == success

PopHead_DropOnly(success, retries) == retries >= MAX_SMS_RETRIES

PopHead(success, retries) == success \/ retries >= MAX_SMS_RETRIES

\* a drain step without the shared cooldown
DrainDue_NoCooldown(q, now, lastAttempt) ==
    /\ q # <<>>
    /\ now >= q[1].nextAttempt

\* the cooldown and head gates of processSMSQueue()
DrainDue(q, now, lastAttempt) ==
    /\ q # <<>>
    /\ ~(Sub32(now, lastAttempt) < SMS_RETRY_INTERVAL)
    /\ now >= q[1].nextAttempt

\* a failed attempt that does not push the next attempt back
AfterAttempt_NoBackoff(q, success, now) ==
    IF PopHead(success, q[1].retries) THEN Tail(q)
    ELSE [q EXCEPT ![1].retries = @ + 1, ![1].tries = @ + 1]

\* what the queue is after the attempt on its head
AfterAttempt(q, success, now) ==
    IF PopHead(success, q[1].retries) THEN Tail(q)
    ELSE [q EXCEPT ![1].retries = @ + 1,
                   ![1].nextAttempt = Add32(now, SMS_RETRY_INTERVAL),
                   ![1].tries = @ + 1]

ProcessSMSQueue ==
    /\ pc = "sms"
    /\ pc' = NextPc(build, pc)
    /\ IF NotReady(gsmStatus)
       THEN /\ \E ok \in BOOLEAN : checkGSMStatus(ok)
            /\ ev' = [op |-> "sms", entry |-> gsmStatus, attempted |-> FALSE, calls |-> <<>>,
                      recovery |-> RecoveryInfo]
            /\ UNCHANGED <<lastSMSAttempt, smsQueue, departed, attemptAt>>
       ELSE IF DrainDue(smsQueue, millis, lastSMSAttempt)
       THEN \E outs \in [1..numPhones -> SendOutcomes] :
               LET r == SendLoop(1, gsmStatus, outs, <<>>)
                   pop == PopHead(r.success, smsQueue[1].retries)
               IN /\ lastSMSAttempt' = millis
                  /\ gsmStatus' = r.status
                  /\ smsQueue' = AfterAttempt(smsQueue, r.success, millis)
                  /\ departed' = IF pop THEN smsQueue[1].seq ELSE departed
                  /\ attemptAt' = millis
                  /\ ev' = [op |-> "sms", entry |-> gsmStatus, attempted |-> TRUE, calls |-> r.calls,
                            seq |-> smsQueue[1].seq, headSeq |-> departed + 1,
                            prev |-> attemptAt, nextAttempt |-> smsQueue[1].nextAttempt,
                            queued |-> Len(smsQueue), before |-> smsQueue,
                            success |-> r.success, popped |-> pop,
                            tries |-> smsQueue[1].tries + 1, at |-> millis,
                            since |-> Sub32(millis, lastSMSAttempt)]
                  /\ UNCHANGED <<lastGSMRetry, recoveries>>
       ELSE /\ ev' = [op |-> "sms", entry |-> gsmStatus, attempted |-> FALSE, calls |-> <<>>]
            /\ UNCHANGED <<gsmStatus, lastGSMRetry, recoveries, lastSMSAttempt,
                           smsQueue, departed, attemptAt>>
    /\ UNCHANGED <<build, clockVars, sensorVars, scheduleVars, waterVars, fertVars,
                   nextSeq, waterRun, fertilizerDue, fireMinute, fireCount>>

\* ------------------------------------------------------------- loop start
\* loop() of ESP32.cpp up to the WiFi check: with WiFi down the iteration
\* ends there (WiFi.reconnect(); delay(5000); return).
LoopStartESP32 ==
    /\ pc = "loop" /\ build = "ESP32" /\ tick < MaxTicks
    /\ \E dt \in LoopTimes, wifi \in BOOLEAN :
          /\ currentMillis' = Add32(millis, dt)
          /\ millis' = Add32(millis, dt)
          /\ pc' = IF wifi THEN NextPc(build, pc) ELSE "loop"
          /\ ev' = [op |-> "loop", returned |-> ~wifi]
    /\ tick' = tick + 1
    /\ UNCHANGED <<build, sensorVars, scheduleVars, waterVars, fertVars, gsmVars, smsQueue, ghostVars>>

\* loop() of main.cpp: checkWiFiConnection() only delays, the iteration goes on.
LoopStart ==
    /\ pc = "loop" /\ build = "esp32_codes" /\ tick < MaxTicks
    /\ \E dt \in LoopTimes :
          /\ currentMillis' = Add32(millis, dt)
          /\ millis' = Add32(millis, dt)
    /\ pc' = NextPc(build, pc)
    /\ ev' = [op |-> "loop", returned |-> FALSE]
    /\ tick' = tick + 1
    /\ UNCHANGED <<build, sensorVars, scheduleVars, waterVars, fertVars, gsmVars, smsQueue, ghostVars>>

\* --------------------------------------------------------------- schedules
\* the first enabled watering schedule of the list (0: none)
ActiveIdx(list) ==
    LET I == {i \in 1..Len(list) : list[i].type = "watering" /\ list[i].enabled}
    IN IF I = {} THEN 0 ELSE CHOOSE i \in I : \A j \in I : i <= j

\* the first enabled fertilizing schedule of the list (0: none)
FertIdx(list) ==
    LET I == {i \in 1..Len(list) : list[i].type = "fertilizing" /\ list[i].enabled}
    IN IF I = {} THEN 0 ELSE CHOOSE i \in I : \A j \in I : i <= j

currentThreshold(list) ==
    IF ActiveIdx(list) = 0 THEN defaultThreshold ELSE list[ActiveIdx(list)].moistureThreshold
isAutoMode(list) ==
    IF ActiveIdx(list) = 0 THEN FALSE ELSE list[ActiveIdx(list)].moistureMode = "auto"
\* isAutoMode && moisturePercent > currentThreshold && moisturePercent < DISCONNECTED_THRESHOLD
AutoStartDue(list, m) ==
    isAutoMode(list) /\ m > currentThreshold(list) /\ m < disconnectedThreshold

Text(what, reason, moisture, arg) ==
    [what |-> what, reason |-> reason, moisture |-> moisture, arg |-> arg]

\* ------------------------------------------------- ESP32.cpp: pump control
\* the sensor block of loop(): a new reading every READ_INTERVAL
ReadSensors ==
    /\ pc = "sensors" /\ build = "ESP32"
    /\ IF Sub32(currentMillis, lastReadTime) >= READ_INTERVAL_ESP32
       THEN /\ moisturePercent' \in Moistures
            /\ lastReadTime' = currentMillis
       ELSE UNCHANGED sensorVars
    /\ pc' = NextPc(build, pc)
    /\ ev' = [op |-> "read", read |-> lastReadTime' # lastReadTime]
    /\ UNCHANGED <<build, clockVars, scheduleVars, waterVars, fertVars, gsmVars, smsQueue, ghostVars>>

\* the stop test of the water block of loop()
WaterStopDue_MoistureOnly(elapsed, m) ==
    m <= dryThreshold \/ m >= disconnectedThreshold

WaterStopDue(elapsed, m) ==
    elapsed >= waterOnDuration \/ m <= dryThreshold \/ m >= disconnectedThreshold

\* the reason the water block reports
WaterStopReason(m) ==
    IF m >= disconnectedThreshold THEN "Sensor disconnected or not in soil"
    ELSE IF m <= dryThreshold THEN "Target moisture level reached"
    ELSE "Duration completed"

\* "Enhanced water pump control logic" of loop()
WaterControl ==
    /\ pc = "water" /\ build = "ESP32"
    /\ IF waterState
       THEN IF WaterStopDue(Sub32(currentMillis, previousWaterMillis), moisturePercent)
            THEN /\ waterState' = FALSE
                 /\ waterRelayPin' = "LOW"
                 /\ smsQueue' = queueSMS(smsQueue, Text("Watering stopped", WaterStopReason(moisturePercent), -1, -1), nextSeq)
                 /\ nextSeq' = nextSeq + 1
                 /\ ev' = [op |-> "water", wasRunning |-> TRUE, started |-> FALSE, stopped |-> TRUE,
                           reason |-> WaterStopReason(moisturePercent)]
                 /\ UNCHANGED previousWaterMillis
            ELSE /\ ev' = [op |-> "water", wasRunning |-> TRUE, started |-> FALSE, stopped |-> FALSE]
                 /\ UNCHANGED <<waterVars, smsQueue, nextSeq>>
       ELSE IF AutoStartDue(schedules, moisturePercent)
            THEN /\ waterState' = TRUE
                 /\ previousWaterMillis' = currentMillis
                 /\ waterRelayPin' = "HIGH"
                 /\ smsQueue' = queueSMS(smsQueue, Text("Started watering", "Soil is dry", moisturePercent, currentThreshold(schedules)), nextSeq)
                 /\ nextSeq' = nextSeq + 1
                 /\ ev' = [op |-> "water", wasRunning |-> FALSE, started |-> TRUE, stopped |-> FALSE]
            ELSE /\ ev' = [op |-> "water", wasRunning |-> FALSE, started |-> FALSE, stopped |-> FALSE]
                 /\ UNCHANGED <<waterVars, smsQueue, nextSeq>>
    /\ waterRun' = IF ~waterState /\ AutoStartDue(schedules, moisturePercent)
                   THEN Text("Started watering", "Soil is dry", moisturePercent, currentThreshold(schedules))
                   ELSE waterRun
    /\ pc' = NextPc(build, pc)
    /\ UNCHANGED <<build, clockVars, sensorVars, scheduleVars, fertVars, gsmVars,
                   departed, attemptAt, fertilizerDue, fireMinute, fireCount, recoveries>>

\* a fertilizer block that also stops on a disconnected sensor
FertilizerStopDue_Moisture(elapsed) ==
    elapsed >= fertilizerOnDuration \/ moisturePercent >= disconnectedThreshold

\* the stop test of the fertilizer block of loop()
FertilizerStopDue(elapsed) == elapsed >= fertilizerOnDuration

\* "Fertilizer timing control" of loop()
\* ghost: 1 when the fertilizer goes from Idle to Running, else 0
FertilizerStarts(after) == IF ~fertilizerState /\ after THEN 1 ELSE 0

\* ghost: the fires among `fired` of fertilizing schedules of the list
FertilizingFires(fired, list) ==
    Cardinality({k \in 1..Len(fired) :
        \E i \in 1..Len(list) : list[i].id = fired[k] /\ list[i].type = "fertilizing"})

FertilizerControl ==
    /\ pc = "fertilizer" /\ build = "ESP32"
    /\ IF fertilizerState
       THEN IF FertilizerStopDue(Sub32(currentMillis, previousFertilizerMillis))
            THEN /\ fertilizerState' = FALSE
                 /\ fertilizerRelayPin' = "LOW"
                 /\ smsQueue' = queueSMS(smsQueue, Text("Fertilizer cycle completed", "Duration completed", -1, -1), nextSeq)
                 /\ nextSeq' = nextSeq + 1
                 /\ ev' = [op |-> "fertilizer", wasRunning |-> TRUE, started |-> FALSE, stopped |-> TRUE]
                 /\ UNCHANGED previousFertilizerMillis
            ELSE /\ ev' = [op |-> "fertilizer", wasRunning |-> TRUE, started |-> FALSE, stopped |-> FALSE]
                 /\ UNCHANGED <<fertVars, smsQueue, nextSeq>>
       ELSE IF isScheduledDate
            THEN /\ fertilizerState' = TRUE
                 /\ previousFertilizerMillis' = millis
                 /\ fertilizerRelayPin' = "HIGH"
                 /\ smsQueue' = queueSMS(smsQueue, Text("Starting scheduled fertilizing", "Scheduled application", -1, -1), nextSeq)
                 /\ nextSeq' = nextSeq + 1
                 /\ ev' = [op |-> "fertilizer", wasRunning |-> FALSE, started |-> TRUE, stopped |-> FALSE]
            ELSE /\ ev' = [op |-> "fertilizer", wasRunning |-> FALSE, started |-> FALSE, stopped |-> FALSE]
                 /\ UNCHANGED <<fertVars, smsQueue, nextSeq>>
    /\ fertilizerDue' = fertilizerDue - FertilizerStarts(fertilizerState')
    /\ pc' = NextPc(build, pc)
    /\ UNCHANGED <<build, clockVars, sensorVars, scheduleVars, waterVars, gsmVars,
                   departed, attemptAt, waterRun, fireMinute, fireCount, recoveries>>

\* ------------------------------------------- esp32_codes: relay_manager
\* The actuator state the relay manager works on, with the SMS queue it
\* appends to (seq: the ghost arrival number of the next message; run: ghost,
\* the text the last water start was announced with).
ActuatorState ==
    [water |-> waterState, prevWater |-> previousWaterMillis, pinW |-> waterRelayPin,
     fert |-> fertilizerState, prevFert |-> previousFertilizerMillis, pinF |-> fertilizerRelayPin,
     queue |-> smsQueue, seq |-> nextSeq, run |-> waterRun]

SetActuatorState(st) ==
    /\ waterState' = st.water /\ previousWaterMillis' = st.prevWater /\ waterRelayPin' = st.pinW
    /\ fertilizerState' = st.fert /\ previousFertilizerMillis' = st.prevFert
    /\ fertilizerRelayPin' = st.pinF
    /\ smsQueue' = st.queue /\ nextSeq' = st.seq /\ waterRun' = st.run

\* a water start that does not drive the relay
startWatering_NoPin(st, text) ==
    [st EXCEPT !.water = TRUE, !.prevWater = millis,
               !.queue = queueSMS(@, text, st.seq), !.seq = @ + 1, !.run = text]

startWatering(st, text) ==
    [st EXCEPT !.water = TRUE, !.prevWater = millis, !.pinW = "HIGH",
               !.queue = queueSMS(@, text, st.seq), !.seq = @ + 1, !.run = text]

\* a water stop that tells nobody
stopWatering_Silent(st, reason) == [st EXCEPT !.water = FALSE, !.pinW = "LOW"]

stopWatering(st, reason) ==
    [st EXCEPT !.water = FALSE, !.pinW = "LOW",
               !.queue = queueSMS(@, Text("Watering stopped", reason, -1, -1), st.seq), !.seq = @ + 1]

\* a fertilizer start that switches the water pump off
startFertilizing_Interlock(st, text) ==
    [st EXCEPT !.fert = TRUE, !.prevFert = millis, !.pinF = "HIGH",
               !.water = FALSE, !.pinW = "LOW",
               !.queue = queueSMS(@, text, st.seq), !.seq = @ + 1]

startFertilizing(st, text) ==
    [st EXCEPT !.fert = TRUE, !.prevFert = millis, !.pinF = "HIGH",
               !.queue = queueSMS(@, text, st.seq), !.seq = @ + 1]

stopFertilizing(st, reason) ==
    [st EXCEPT !.fert = FALSE, !.pinF = "LOW",
               !.queue = queueSMS(@, Text("Fertilizer cycle completed", reason, -1, -1), st.seq), !.seq = @ + 1]

\* waterDuration of manageWaterPump(): the first enabled watering schedule's
waterDuration(list) ==
    IF ActiveIdx(list) = 0 THEN defaultWaterDuration ELSE list[ActiveIdx(list)].duration * MINUTE

fertilizerDuration(list) ==
    IF FertIdx(list) = 0 THEN defaultFertilizerDuration ELSE list[FertIdx(list)].duration * MINUTE

manageWaterPump(st, list, cm, m) ==
    IF st.water
    THEN IF Sub32(cm, st.prevWater) >= waterDuration(list)
         THEN stopWatering(st, "Scheduled duration completed")
         ELSE st
    ELSE IF AutoStartDue(list, m)
         THEN startWatering(st, Text("Started watering", "Moisture", m, currentThreshold(list)))
         ELSE st

manageFertilizer(st, list, cm) ==
    IF st.fert /\ Sub32(cm, st.prevFert) >= fertilizerDuration(list)
    THEN stopFertilizing(st, "Duration completed")
    ELSE st

\* readAndProcessSensors(currentMillis), called by loop() when
\* shouldReadSensors(currentMillis): readSensorData(), then the two managers.
ReadAndProcessSensors ==
    /\ pc = "sensors" /\ build = "esp32_codes"
    /\ IF Sub32(currentMillis, lastReadTime) >= READ_INTERVAL
       THEN \E m \in Moistures :
               LET st == manageFertilizer(manageWaterPump(ActuatorState, schedules, currentMillis, m),
                                          schedules, currentMillis)
               IN /\ moisturePercent' = m
                  /\ lastReadTime' = currentMillis
                  /\ SetActuatorState(st)
                  /\ ev' = [op |-> "sensors", managed |-> TRUE, read |-> TRUE,
                            wasRunning |-> waterState, started |-> ~waterState /\ st.water,
                            stopped |-> waterState /\ ~st.water,
                            reason |-> "Scheduled duration completed"]
       ELSE /\ ev' = [op |-> "sensors", managed |-> FALSE, read |-> FALSE,
                      wasRunning |-> waterState, started |-> FALSE, stopped |-> FALSE]
            /\ UNCHANGED <<sensorVars, waterVars, fertVars, smsQueue, nextSeq, waterRun>>
    /\ pc' = NextPc(build, pc)
    /\ fertilizerDue' = fertilizerDue - FertilizerStarts(fertilizerState')
    /\ UNCHANGED <<build, clockVars, scheduleVars, gsmVars, departed, attemptAt, fireMinute, fireCount, recoveries>>

\* ------------------------------------------------------ schedule refresh
FetchOutcomes ==
    {[kind |-> "failed", list |-> <<>>], [kind |-> "no_array", list |-> <<>>]}
        \cup {[kind |-> "list", list |-> l] : l \in ScheduleLists}

\* a refresh that adds the received schedules to the ones it has
fetchSchedules_Merge(old, r) == IF r.kind = "failed" THEN old ELSE old \o r.list

\* fetchSchedules() / fetchSchedulesFromServer(): the list after the call
fetchSchedules(old, r) == IF r.kind = "failed" THEN old ELSE r.list

FetchSchedules ==
    /\ pc = "poll"
    /\ IF Sub32(currentMillis, lastPollTime) >= POLLING_INTERVAL
       THEN /\ \E r \in FetchOutcomes :
                 /\ schedules' = fetchSchedules(schedules, r)
                 /\ ev' = [op |-> "poll", polled |-> TRUE, kind |-> r.kind,
                           list |-> r.list, old |-> schedules]
            /\ lastPollTime' = currentMillis
       ELSE /\ ev' = [op |-> "poll", polled |-> FALSE]
            /\ UNCHANGED <<schedules, lastPollTime>>
    /\ pc' = NextPc(build, pc)
    /\ UNCHANGED <<build, clockVars, sensorVars, triggeredSchedules, currentMinute, isScheduledDate,
                   waterVars, fertVars, gsmVars, smsQueue, ghostVars>>

\* ------------------------------------------------------- schedule engine
isFertilizingScheduled(s, currentDay, currentTime) ==
    /\ s.type = "fertilizing"
    /\ \E k \in 1..Len(s.calendarDays) : s.calendarDays[k] = currentDay /\ s.time = currentTime

\* the weekday test of the watering branch
isWateringScheduled(s, dayName, currentTime) ==
    /\ s.time = currentTime
    /\ \E k \in 1..Len(s.days) : equalsIgnoreCase(s.days[k], dayName)

\* shouldRun of checkAndExecuteSchedules()
shouldRun(s, now) ==
    IF s.type = "fertilizing" THEN isFertilizingScheduled(s, tm_mday(now), FormatHM(now))
    ELSE IF s.type = "watering" THEN isWateringScheduled(s, tm_wdayName(now), FormatHM(now))
    ELSE FALSE

\* the key of a schedule in triggeredSchedules (std::map<int, bool>)
LedgerKey(s) == toInt(s.id)

\* a ledger that is never cleared
ResetDue_Never(now, last) == FALSE

\* a ledger that is cleared at every evaluation
ResetDue_EveryTick(now, last) == TRUE

\* "Reset triggers if minute has changed"
ResetDue(now, last) == tm_min(now) # last

\* a reset that keeps the marks of odd keys
ClearedLedger_Partial(trig, now, last) ==
    IF ResetDue(now, last) THEN {k \in trig : k % 2 = 1} ELSE trig

\* triggeredSchedules.clear() under the reset condition: the ledger the loop
\* over the schedules starts with
ClearedLedger(trig, now, last) == IF ResetDue(now, last) THEN {} ELSE trig

\* the for loop of checkAndExecuteSchedules(); acc: the actuator state, the
\* ledger and (ghost) the ids fired, in order
RECURSIVE ExecuteLoop(_, _, _, _)
ExecuteLoop(i, list, now, acc) ==
    IF i > Len(list) THEN acc
    ELSE LET s == list[i] IN
         IF ~s.enabled \/ LedgerKey(s) \in acc.trig THEN ExecuteLoop(i + 1, list, now, acc)
         ELSE IF shouldRun(s, now)
         THEN ExecuteLoop(i + 1, list, now,
                  [trig |-> acc.trig \cup {LedgerKey(s)},
                   fired |-> Append(acc.fired, s.id),
                   st |-> IF s.type = "watering"
                          THEN startWatering(acc.st, Text("Started watering", "Scheduled watering", -1, s.duration))
                          ELSE IF s.type = "fertilizing"
                          THEN startFertilizing(acc.st, Text("Started fertilizing", "Scheduled fertilizing", -1, s.duration))
                          ELSE acc.st])
         ELSE ExecuteLoop(i + 1, list, now, acc)

\* ghost: the fires of the calendar minute cal, after the fires `fired` in it
CountFires(cal, fired) ==
    [id \in AllIds |->
        (IF cal = fireMinute THEN fireCount[id] ELSE 0)
            + Cardinality({k \in 1..Len(fired) : fired[k] = id})]

\* checkAndExecuteSchedules() of schedule_manager
CheckAndExecuteSchedules ==
    /\ pc = "sched" /\ build = "esp32_codes"
    /\ LET trig0 == ClearedLedger(triggeredSchedules, millis, currentMinute)
           acc == ExecuteLoop(1, schedules, millis,
                              [trig |-> trig0, fired |-> <<>>, st |-> ActuatorState])
       IN /\ triggeredSchedules' = acc.trig
          /\ currentMinute' = tm_min(millis)
          /\ SetActuatorState(acc.st)
          /\ fertilizerDue' = fertilizerDue + FertilizingFires(acc.fired, schedules)
                                  - FertilizerStarts(acc.st.fert)
          /\ fireMinute' = CalMinute(millis)
          /\ fireCount' = CountFires(CalMinute(millis), acc.fired)
          /\ ev' = [op |-> "sched", fired |-> acc.fired,
                    cleared |-> ResetDue(millis, currentMinute),
                    wasRunning |-> waterState, started |-> ~waterState /\ acc.st.water,
                    stale |-> triggeredSchedules, fertWasRunning |-> fertilizerState,
                    prevFert |-> previousFertilizerMillis,
                    enq |-> [k \in 1..(Len(acc.st.queue) - Len(smsQueue)) |->
                                acc.st.queue[Len(smsQueue) + k].message]]
    /\ pc' = NextPc(build, pc)
    /\ UNCHANGED <<build, clockVars, sensorVars, schedules, isScheduledDate, lastPollTime, gsmVars,
                   departed, attemptAt, recoveries>>

\* the for loop of checkSchedules() of ESP32.cpp: only the fertilizing branch
\* has a body; acc: the ledger, isScheduledDate and (ghost) the ids fired
RECURSIVE CheckLoop(_, _, _, _)
CheckLoop(i, list, now, acc) ==
    IF i > Len(list) THEN acc
    ELSE LET s == list[i] IN
         IF ~s.enabled \/ LedgerKey(s) \in acc.trig THEN CheckLoop(i + 1, list, now, acc)
         ELSE IF s.type = "fertilizing" /\ isFertilizingScheduled(s, tm_mday(now), FormatHM(now))
         THEN CheckLoop(i + 1, list, now,
                  [trig |-> acc.trig \cup {LedgerKey(s)},
                   fired |-> Append(acc.fired, s.id),
                   flag |-> TRUE])
         ELSE CheckLoop(i + 1, list, now, acc)

\* checkSchedules() of ESP32.cpp
CheckSchedules ==
    /\ pc = "sched" /\ build = "ESP32"
    /\ LET trig0 == ClearedLedger(triggeredSchedules, millis, currentMinute)
           acc == CheckLoop(1, schedules, millis,
                            [trig |-> trig0, fired |-> <<>>, flag |-> isScheduledDate])
       IN /\ triggeredSchedules' = acc.trig
          /\ currentMinute' = tm_min(millis)
          /\ isScheduledDate' = acc.flag
          /\ fertilizerDue' = fertilizerDue + FertilizingFires(acc.fired, schedules)
          /\ fireMinute' = CalMinute(millis)
          /\ fireCount' = CountFires(CalMinute(millis), acc.fired)
          /\ ev' = [op |-> "sched", fired |-> acc.fired,
                    cleared |-> ResetDue(millis, currentMinute),
                    wasRunning |-> waterState, started |-> FALSE,
                    stale |-> triggeredSchedules, fertWasRunning |-> fertilizerState,
                    prevFert |-> previousFertilizerMillis, enq |-> <<>>]
    /\ pc' = NextPc(build, pc)
    /\ UNCHANGED <<build, clockVars, sensorVars, schedules, lastPollTime, waterVars, fertVars,
                   gsmVars, smsQueue, nextSeq, departed, attemptAt, waterRun, recoveries>>

\* ------------------------------------------------------------------ Next
Next ==
    \/ Setup
    \/ LoopStartESP32
    \/ LoopStart
    \/ ReadSensors
    \/ WaterControl
    \/ FertilizerControl
    \/ ReadAndProcessSensors
    \/ FetchSchedules
    \/ CheckSchedules
    \/ CheckAndExecuteSchedules
    \/ CheckGSMStatus
    \/ ProcessSMSQueue

Spec == Init /\ [][Next]_vars

\* ------------------------------------------------ a run followed further
\* The ESP32.cpp build one minute after setup(), at the end of its second
\* loop iteration (08:00:30): the first iteration (08:00:00) loaded the
\* schedules and checkSchedules() set isScheduledDate for the fertilizing
\* schedule of the 1st, the second iteration started the fertilizer and sent
\* the notification of the start. tick counts the iterations followed from here.
MidRun ==
    /\ build = "ESP32" /\ pc = "loop"
    /\ millis = 2 * Ms(30000) /\ currentMillis = 2 * Ms(30000)
    /\ moisturePercent = 65 /\ lastReadTime = 2 * Ms(30000)
    /\ schedules = <<wAuto, fMonthly, fWeekly>> /\ triggeredSchedules = {toInt(fMonthly.id)}
    /\ currentMinute = 0 /\ isScheduledDate = TRUE /\ lastPollTime = 2 * Ms(30000)
    /\ waterState = FALSE /\ previousWaterMillis = 0 /\ waterRelayPin = "LOW"
    /\ fertilizerState = TRUE /\ previousFertilizerMillis = 2 * Ms(30000)
    /\ fertilizerRelayPin = "HIGH"
    /\ gsmStatus = "GSM_READY" /\ lastGSMRetry = 0 /\ lastSMSAttempt = 2 * Ms(30000)
    /\ smsQueue = <<>>
    /\ nextSeq = 2 /\ departed = 1 /\ attemptAt = 2 * Ms(30000)
    /\ waterRun = [what |-> "none", reason |-> "none", moisture |-> -1, arg |-> -1]
    /\ fertilizerDue = 0
    /\ fireMinute = BootMinute + 1
    /\ fireCount = [i \in AllIds |-> IF i = fMonthly.id THEN 1 ELSE 0]
    /\ recoveries = <<>>
    /\ ev = [op |-> "sched", fired |-> <<>>, cleared |-> FALSE, wasRunning |-> FALSE,
             started |-> FALSE, stale |-> {toInt(fMonthly.id)}, fertWasRunning |-> TRUE,
             prevFert |-> 2 * Ms(30000), enq |-> <<>>]

InitMidRun == MidRun /\ tick = 0

\* the program from setup(), and from the state MidRun of that program
SpecMidRun == (Init \/ InitMidRun) /\ [][Next]_vars

\* ------------------------------------------- the actuators' runs, to their end
\* The program two minutes after the start, at the head of a loop iteration,
\* with any of the schedule lists or none and with each actuator Idle or
\* started in the iteration before. The list stays as it is.
InitRuns ==
    /\ build \in {"ESP32", "esp32_codes"}
    /\ pc = "sensors"
    /\ tick = 0 /\ millis = 2 * MINUTE /\ currentMillis = millis
    /\ moisturePercent \in Moistures /\ lastReadTime = millis
    /\ schedules \in ScheduleLists \cup {<<>>}
    /\ triggeredSchedules = {} /\ currentMinute = -1
    /\ lastPollTime = millis
    /\ waterState \in BOOLEAN /\ fertilizerState \in BOOLEAN
    /\ isScheduledDate = (build = "ESP32" /\ fertilizerState)
    /\ previousWaterMillis = (IF waterState THEN millis ELSE 0)
    /\ waterRelayPin = (IF waterState THEN "HIGH" ELSE "LOW")
    /\ previousFertilizerMillis = (IF fertilizerState THEN millis ELSE 0)
    /\ fertilizerRelayPin = (IF fertilizerState THEN "HIGH" ELSE "LOW")
    /\ gsmStatus = "GSM_READY" /\ lastGSMRetry = 0 /\ lastSMSAttempt = 0
    /\ smsQueue = <<>>
    /\ nextSeq = 1 /\ departed = 0 /\ attemptAt = -1
    /\ waterRun = [what |-> "none", reason |-> "none", moisture |-> -1, arg |-> -1]
    /\ fertilizerDue = 0
    /\ fireMinute = -1 /\ fireCount = [i \in AllIds |-> 0]
    /\ recoveries = <<>>
    /\ ev = [op |-> "init"]

\* the time a loop iteration takes while a run is followed to its end
RunTimes == {Ms(30000)}

\* the next loop iteration comes to the sensors and the actuators' updates
RunIteration ==
    /\ pc = NextPc(build, IF build = "ESP32" THEN "fertilizer" ELSE "sensors")
    /\ tick < MaxRunTicks
    /\ \E dt \in RunTimes :
          /\ currentMillis' = Add32(millis, dt)
          /\ millis' = Add32(millis, dt)
    /\ tick' = tick + 1
    /\ pc' = "sensors"
    /\ ev' = [op |-> "loop", returned |-> FALSE]
    /\ UNCHANGED <<build, sensorVars, scheduleVars, waterVars, fertVars, gsmVars, smsQueue, ghostVars>>

NextRuns ==
    ReadSensors \/ WaterControl \/ FertilizerControl \/ ReadAndProcessSensors \/ RunIteration

\* loop() is called again and again: no step of it is put off forever
SpecRuns == InitRuns /\ [][NextRuns]_vars /\ WF_vars(NextRuns)

\* ------------------------------------ the water rule under constant inputs
\* convertToMoisturePercent(): map(raw, 0, 1023, 100, 0)
Percents == 0..100

\* The water actuator's update applied again and again to one moisture
\* reading and one schedule list: a single enabled Auto watering schedule whose
\* threshold is any percentage. Everything else is as setup() leaves it.
InitAuto ==
    /\ build \in {"ESP32", "esp32_codes"}
    /\ pc = "water"
    /\ tick = 0 /\ millis = Ms(30000) /\ currentMillis = Ms(30000)
    /\ moisturePercent \in Percents /\ lastReadTime = Ms(30000)
    /\ schedules \in {<<[wAuto EXCEPT !.moistureThreshold = th]>> : th \in Percents}
    /\ triggeredSchedules = {} /\ currentMinute = -1
    /\ isScheduledDate = FALSE /\ lastPollTime = Ms(30000)
    /\ waterState = FALSE /\ previousWaterMillis = 0 /\ waterRelayPin = "LOW"
    /\ fertilizerState = FALSE /\ previousFertilizerMillis = 0 /\ fertilizerRelayPin = "LOW"
    /\ gsmStatus = "GSM_READY" /\ lastGSMRetry = 0 /\ lastSMSAttempt = 0
    /\ smsQueue = <<>>
    /\ nextSeq = 1 /\ departed = 0 /\ attemptAt = -1
    /\ waterRun = [what |-> "none", reason |-> "none", moisture |-> -1, arg |-> -1]
    /\ fertilizerDue = 0
    /\ fireMinute = -1 /\ fireCount = [i \in AllIds |-> 0]
    /\ recoveries = <<>>
    /\ ev = [op |-> "init"]

\* manageWaterPump(currentMillis) on the reading and the list as they are
ManageWaterPump ==
    /\ pc = "water" /\ build = "esp32_codes"
    /\ LET st == manageWaterPump(ActuatorState, schedules, currentMillis, moisturePercent)
       IN /\ SetActuatorState(st)
          /\ ev' = [op |-> "water", wasRunning |-> waterState, started |-> ~waterState /\ st.water,
                    stopped |-> waterState /\ ~st.water, reason |-> "Scheduled duration completed"]
    /\ pc' = "fertilizer"
    /\ UNCHANGED <<build, clockVars, sensorVars, scheduleVars, gsmVars,
                   departed, attemptAt, fertilizerDue, fireMinute, fireCount, recoveries>>

\* the next loop iteration comes to the water actuator's update
NextIteration ==
    /\ pc = "fertilizer" /\ tick < MaxAutoTicks
    /\ \E dt \in LoopTimes :
          /\ currentMillis' = Add32(millis, dt)
          /\ millis' = Add32(millis, dt)
    /\ tick' = tick + 1
    /\ pc' = "water"
    /\ ev' = [op |-> "loop", returned |-> FALSE]
    /\ UNCHANGED <<build, sensorVars, scheduleVars, waterVars, fertVars, gsmVars, smsQueue, ghostVars>>

NextAuto == WaterControl \/ ManageWaterPump \/ NextIteration

SpecAuto == InitAuto /\ [][NextAuto]_vars

\* ------------------------------ the SMS queue when millis() wraps around
\* values of millis() shortly before the 32-bit counter wraps (after 49.7 days)
WrapStarts == {Sub32(0, Ms(5000)), Sub32(0, Ms(15000)), Sub32(0, Ms(30000))}

\* The program at the GSM check of a loop iteration in which two
\* notifications have been enqueued; the last attempt, a delivery, was 30 s
\* ago; the actuators are Idle and the schedule list is empty.
Queued ==
    /\ build \in {"ESP32", "esp32_codes"}
    /\ pc = "gsm"
    /\ tick = 0 /\ currentMillis = millis
    /\ moisturePercent = 65 /\ lastReadTime = millis
    /\ schedules = <<>>
    /\ triggeredSchedules = {} /\ currentMinute = -1
    /\ isScheduledDate = FALSE /\ lastPollTime = millis
    /\ waterState = FALSE /\ previousWaterMillis = 0 /\ waterRelayPin = "LOW"
    /\ fertilizerState = FALSE /\ previousFertilizerMillis = 0 /\ fertilizerRelayPin = "LOW"
    /\ gsmStatus = "GSM_READY" /\ lastGSMRetry = 0
    /\ lastSMSAttempt = Sub32(millis, Ms(30000))
    /\ smsQueue = queueSMS(queueSMS(<<>>, Text("Started watering", "Soil is dry", 65, 60), 2),
                           Text("Fertilizer cycle completed", "Duration completed", -1, -1), 3)
    /\ nextSeq = 4 /\ departed = 1 /\ attemptAt = Sub32(millis, Ms(30000))
    /\ waterRun = [what |-> "none", reason |-> "none", moisture |-> -1, arg |-> -1]
    /\ fertilizerDue = 0
    /\ fireMinute = -1 /\ fireCount = [i \in AllIds |-> 0]
    /\ recoveries = <<>>
    /\ ev = [op |-> "init"]

\* that state after 49.7 days
InitWrap == millis \in WrapStarts /\ Queued

\* the next loop iteration comes to the GSM check
NextDrainIteration ==
    /\ pc = NextPc(build, "sms") /\ tick < MaxWrapTicks
    /\ \E dt \in LoopTimes :
          /\ currentMillis' = Add32(millis, dt)
          /\ millis' = Add32(millis, dt)
    /\ tick' = tick + 1
    /\ pc' = "gsm"
    /\ ev' = [op |-> "loop", returned |-> FALSE]
    /\ UNCHANGED <<build, sensorVars, scheduleVars, waterVars, fertVars, gsmVars, smsQueue, ghostVars>>

NextWrap == CheckGSMStatus \/ ProcessSMSQueue \/ NextDrainIteration

SpecWrap == InitWrap /\ [][NextWrap]_vars

\* ------------------------------------- the SMS queue with the session Ready
\* The same two notifications two minutes after the start. loop() is called
\* again and again, so no step of it is put off forever; no send is a hard
\* failure, so the session stays Ready.
InitDrain == millis = 2 * MINUTE /\ Queued

LaterDrainIteration ==
    /\ pc = NextPc(build, "sms") /\ tick < MaxDrainTicks
    /\ \E dt \in LoopTimes :
          /\ currentMillis' = Add32(millis, dt)
          /\ millis' = Add32(millis, dt)
    /\ tick' = tick + 1
    /\ pc' = "gsm"
    /\ ev' = [op |-> "loop", returned |-> FALSE]
    /\ UNCHANGED <<build, sensorVars, scheduleVars, waterVars, fertVars, gsmVars, smsQueue, ghostVars>>

\* the GSM check and the drain step when no send is a hard failure
ReadyCheck == CheckGSMStatus /\ gsmStatus' = "GSM_READY"

ReadyDrain == ProcessSMSQueue /\ gsmStatus' = "GSM_READY"

NextDrain == ReadyCheck \/ ReadyDrain \/ LaterDrainIteration

SpecDrain == InitDrain /\ [][NextDrain]_vars /\ WF_vars(NextDrain)

\* ======================================================================
\* Claims
\* ======================================================================

\* The spec's eligibility of a schedule at time now: enabled, its time of day
\* is the current HH:MM and its recurrence contains today (weekly: the weekday,
\* case-insensitive; monthly: the day of the month).
Eligible(s, now) ==
    /\ s.enabled
    /\ s.time = FormatHM(now)
    /\ \/ \E k \in 1..Len(s.days) : ToLower(s.days[k]) = ToLower(tm_wdayName(now))
       \/ \E k \in 1..Len(s.calendarDays) : s.calendarDays[k] = tm_mday(now)

\* C1 (at-most-once firing): in one calendar minute the schedule engine fires
\* a schedule at most once, however many loop iterations and list refreshes
\* fall into that minute. fireCount counts the fires of each schedule id in the
\* calendar minute fireMinute.
C1_AtMostOncePerMinute == \A id \in AllIds : fireCount[id] <= 1

\* C1 witness: a later evaluation in the same calendar minute, after a refresh
\* in the same iteration, finds a schedule that matches and has fired, and does
\* not fire it again.
C1_Witness ==
    /\ ev.op = "sched" /\ ev.fired = <<>> /\ ~ev.cleared
    /\ tick >= 2 /\ lastPollTime = currentMillis
    /\ fireMinute = CalMinute(millis)
    /\ \E i \in 1..Len(schedules) :
          /\ schedules[i].enabled /\ shouldRun(schedules[i], millis)
          /\ fireCount[schedules[i].id] = 1

\* C2 (exactly once per eligible schedule): after an evaluation every eligible
\* schedule of the list has fired exactly once in the current calendar minute,
\* also when several match and whatever their ids are.
C2_ExactlyOncePerEligible ==
    ev.op = "sched" =>
        \A i \in 1..Len(schedules) :
            Eligible(schedules[i], millis) =>
                fireMinute = CalMinute(millis) /\ fireCount[schedules[i].id] = 1

\* C3 (never watered when the sensor is disconnected): no step takes the water
\* actuator from Idle to Running while the moisture reading is >= 95.
C3_NoStartWhenDisconnected ==
    [][(~waterState /\ waterState') => moisturePercent' < disconnectedThreshold]_vars

\* a step that ran the water actuator's update
WaterUpdateRan == ev.op = "water" \/ (ev.op = "sensors" /\ ev.managed)

\* C4 (watering stop conditions): after an actuator update that found watering
\* Running with moisture >= 95, or moisture <= the controlling schedule's
\* threshold, or the run time >= the configured duration, watering is Idle.
C4_StopConditions ==
    (/\ WaterUpdateRan /\ ev.wasRunning
     /\ \/ moisturePercent >= disconnectedThreshold
        \/ moisturePercent <= currentThreshold(schedules)
        \/ Sub32(currentMillis, previousWaterMillis) >= waterDuration(schedules))
    => ~waterState

\* the stop reason a message of either build names
ReasonKind(r) ==
    CASE r = "Sensor disconnected or not in soil" -> "sensor disconnected"
      [] r = "Target moisture level reached" -> "target moisture reached"
      [] r \in {"Duration completed", "Scheduled duration completed"} -> "duration completed"
      [] OTHER -> "none"

\* C5 (stop-reason priority): the reason reported when watering stops is the
\* first that holds of sensor disconnected (moisture >= 95), target moisture
\* reached (moisture <= threshold), duration completed.
C5_StopReasonPriority ==
    (WaterUpdateRan /\ ev.stopped) =>
        ReasonKind(ev.reason) =
            (IF moisturePercent >= disconnectedThreshold THEN "sensor disconnected"
             ELSE IF moisturePercent <= currentThreshold(schedules) THEN "target moisture reached"
             ELSE "duration completed")

\* C6 (stop conditions evaluated on every iteration): no iteration of loop()
\* ends with an actuator Running whose stop conditions it did not evaluate.
\* Stated for the loop() whose every call is in the source, ESP32.cpp: an
\* iteration that returns at the WiFi check evaluates nothing.
C6_StopEvaluatedEveryIteration ==
    ~(ev.op = "loop" /\ ev.returned /\ (waterState \/ fertilizerState))

C8_FIFO ==
    /\ \A i \in 1..Len(smsQueue) : smsQueue[i].seq = departed + i
    /\ nextSeq = departed + Len(smsQueue) + 1
    /\ (ev.op = "sms" /\ ev.attempted) => ev.seq = ev.headSeq

\* C8 witness: a message left the queue while a later one, enqueued by another
\* operation, waits behind it
C8_Witness ==
    /\ ev.op = "sms" /\ ev.attempted /\ ev.popped
    /\ Len(smsQueue) >= 1
    /\ departed >= 1

\* C9 (session gating): a drain step entered with the session not Ready calls
\* the send primitive for no recipient, and after a hard failure has put the
\* session in Error the same step calls it no more.
C9_SessionGating ==
    ev.op = "sms" =>
        /\ ev.entry # "GSM_READY" => ev.calls = <<>>
        /\ \A k \in 1..Len(ev.calls) : k < Len(ev.calls) => ev.calls[k][2] # "HardFailure"

\* C9 witness: a message is due while the session is in Error, and is not sent
C9_Witness ==
    /\ ev.op = "sms" /\ ev.entry = "GSM_ERROR" /\ ev.calls = <<>>
    /\ DrainDue(smsQueue, millis, lastSMSAttempt)

\* C10 (recovery cooldown): a recovery handshake runs only with the session in
\* Error and at least GSM_RETRY_INTERVAL after lastGSMRetry, it sets
\* lastGSMRetry to the current time whatever its result, and two consecutive
\* recovery handshakes are at least GSM_RETRY_INTERVAL apart.
C10_RecoveryCooldown ==
    /\ \A k \in 1..Len(recoveries) :
          k > 1 => Sub32(recoveries[k], recoveries[k - 1]) >= GSM_RETRY_INTERVAL
    /\ ((ev.op = "gsm" \/ (ev.op = "sms" /\ ev.entry # "GSM_READY")) /\ ev.recovery.ran) =>
          /\ ev.recovery.status = "GSM_ERROR"
          /\ ev.recovery.since >= GSM_RETRY_INTERVAL
          /\ lastGSMRetry = millis

\* C10 witness: a second recovery handshake, after a first one that failed
C10_Witness == Len(recoveries) >= 2

\* the watering schedules of the list that the evaluation just made fired
FiredWatering ==
    {i \in 1..Len(schedules) :
        /\ schedules[i].type = "watering"
        /\ \E k \in 1..Len(ev.fired) : ev.fired[k] = schedules[i].id}

\* the notifications of kind `what` that the evaluation just made enqueued
Enqueued(what) == {k \in 1..Len(ev.enq) : ev.enq[k].what = what}

\* C11 (scheduled watering start): when an enabled watering schedule fires
\* with watering Idle and the moisture strictly between the schedule's
\* threshold and 95, watering is Running with started_at = now and exactly one
\* 'started' notification was enqueued, which carries the moisture reading.
C11_ScheduledWateringStart ==
    ev.op = "sched" =>
        \A i \in FiredWatering :
            (/\ ~ev.wasRunning
             /\ moisturePercent > schedules[i].moistureThreshold
             /\ moisturePercent < disconnectedThreshold)
            => /\ waterState /\ previousWaterMillis = millis
               /\ Cardinality(Enqueued("Started watering")) = 1
               /\ \A k \in Enqueued("Started watering") : ev.enq[k].moisture = moisturePercent

\* C12 (scheduled watering skip): when an enabled watering schedule fires with
\* the moisture at or below its threshold, the schedule is marked in the
\* ledger, watering stays Idle and a 'skipped' notification is enqueued.
C12_ScheduledWateringSkip ==
    ev.op = "sched" =>
        \A i \in FiredWatering :
            (~ev.wasRunning /\ moisturePercent <= schedules[i].moistureThreshold)
            => /\ LedgerKey(schedules[i]) \in triggeredSchedules
               /\ ~waterState
               /\ Enqueued("Watering skipped") # {}

\* C13 (ledger reset): after every evaluation the ledger holds only marks of
\* schedules fired in the current calendar minute: a mark made in an earlier
\* minute is gone once the engine has observed a later one, so every schedule
\* is eligible again.
C13_LedgerReset ==
    ev.op = "sched" =>
        /\ fireMinute = CalMinute(millis)
        /\ \A key \in triggeredSchedules :
              \E id \in AllIds : toInt(id) = key /\ fireCount[id] >= 1

\* C13 witness: an evaluation found marks of an earlier minute and cleared them
C13_Witness ==
    /\ ev.op = "sched" /\ ev.cleared /\ ev.stale # {}
    /\ triggeredSchedules = {}
    /\ CalMinute(millis) > BootMinute + 1

\* the fertilizing schedules of the list that the evaluation just made fired
FiredFertilizing ==
    {i \in 1..Len(schedules) :
        /\ schedules[i].type = "fertilizing"
        /\ \E k \in 1..Len(ev.fired) : ev.fired[k] = schedules[i].id}

\* C14 (fertilizing fire): fertilizing fires start an Idle fertilizer whatever
\* the moisture is (in ESP32.cpp: arm the start the next fertilizer block
\* makes), with one 'started' notification, and do nothing to a Running one:
\* started_at is kept and no 'started' notification is enqueued.
C14_FertilizingFire ==
    (ev.op = "sched" /\ FiredFertilizing # {}) =>
        IF ev.fertWasRunning
        THEN /\ fertilizerState /\ previousFertilizerMillis = ev.prevFert
             /\ Enqueued("Started fertilizing") = {}
        ELSE \/ fertilizerState /\ Cardinality(Enqueued("Started fertilizing")) = 1
             \/ build = "ESP32" /\ isScheduledDate /\ ev.enq = <<>>

\* the duration a build runs the fertilizer for
FertilizerConfiguredDuration ==
    IF build = "ESP32" THEN fertilizerOnDuration ELSE fertilizerDuration(schedules)

\* the next step is the fertilizer's actuator update
FertilizerUpdateStep ==
    \/ build = "ESP32" /\ pc = "fertilizer"
    \/ build = "esp32_codes" /\ pc = "sensors"
          /\ Sub32(currentMillis, lastReadTime) >= READ_INTERVAL

\* C15 (fertilizer stop): a Running fertilizer goes Idle only in an actuator
\* update that finds its run time >= the configured duration, every such
\* update stops it, and the moisture reading (96 included) plays no part.
C15_FertilizerStop ==
    [][/\ (fertilizerState /\ ~fertilizerState') =>
             /\ FertilizerUpdateStep
             /\ Sub32(currentMillis, previousFertilizerMillis) >= FertilizerConfiguredDuration
       /\ (/\ FertilizerUpdateStep /\ fertilizerState
           /\ Sub32(currentMillis, previousFertilizerMillis) >= FertilizerConfiguredDuration)
          => ~fertilizerState']_vars

\* C15 witness: the fertilizer ran through a reading of 96 and was stopped by
\* its duration
C15_Witness ==
    /\ ev.op = "fertilizer" /\ ev.wasRunning /\ ev.stopped
    /\ moisturePercent >= disconnectedThreshold
    /\ Sub32(currentMillis, previousFertilizerMillis) >= fertilizerOnDuration

\* the enabled Auto watering schedules whose threshold the moisture exceeds
AutoCandidates ==
    {i \in 1..Len(schedules) :
        /\ schedules[i].type = "watering" /\ schedules[i].enabled
        /\ schedules[i].moistureMode = "auto"
        /\ moisturePercent > schedules[i].moistureThreshold
        /\ moisturePercent < disconnectedThreshold}

\* C16 (auto-mode start): an actuator update that finds watering Idle starts
\* it iff some enabled Auto watering schedule, wherever it is in the list, has
\* its threshold strictly below the moisture and the moisture is below 95, and
\* the 'started' notification names that schedule's threshold. Stated for the
\* water block of loop() in ESP32.cpp; manageWaterPump() has the same rule.
C16_AutoModeStart ==
    (ev.op = "water" /\ ~ev.wasRunning) =>
        /\ ev.started <=> AutoCandidates # {}
        /\ ev.started =>
              \E i \in AutoCandidates :
                  smsQueue[Len(smsQueue)].message.arg = schedules[i].moistureThreshold

\* the water half and the fertilizer half of an actuator state
WaterHalf(st) == <<st.water, st.prevWater>>
FertilizerHalf(st) == <<st.fert, st.prevFert>>

\* C17 (actuator independence): the water block and the fertilizer block of
\* ESP32.cpp leave the other actuator's flag and started_at unchanged, and in
\* every reachable state the relay manager's start, stop and manage functions
\* would leave the other actuator's half of the state unchanged.
C17_ActuatorIndependence ==
    [][/\ (build = "ESP32" /\ pc = "water") =>
             UNCHANGED <<fertilizerState, previousFertilizerMillis>>
       /\ (build = "ESP32" /\ pc = "fertilizer") =>
             UNCHANGED <<waterState, previousWaterMillis>>
       /\ LET st == ActuatorState
              t == Text("Started", "Scheduled", -1, 1)
          IN /\ FertilizerHalf(startWatering(st, t)) = FertilizerHalf(st)
             /\ FertilizerHalf(stopWatering(st, "Scheduled duration completed")) = FertilizerHalf(st)
             /\ WaterHalf(startFertilizing(st, t)) = WaterHalf(st)
             /\ WaterHalf(stopFertilizing(st, "Duration completed")) = WaterHalf(st)
             /\ \A m \in Moistures :
                   FertilizerHalf(manageWaterPump(st, schedules, currentMillis, m)) = FertilizerHalf(st)
             /\ WaterHalf(manageFertilizer(st, schedules, currentMillis)) = WaterHalf(st)]_vars

\* C17 witness: the fertilizer was started while the water pump runs, and
\* both are Running
C17_Witness ==
    /\ waterState /\ fertilizerState
    /\ previousWaterMillis # previousFertilizerMillis
    /\ \/ ev.op = "fertilizer" /\ ev.started
       \/ ev.op = "sched" /\ ev.wasRunning /\ ~ev.fertWasRunning

\* C18 (actuator output follows state): once setup() has run, the water relay
\* output is HIGH iff waterState and the fertilizer relay output is HIGH iff
\* fertilizerState.
C18_OutputFollowsState ==
    pc # "setup" =>
        /\ (waterRelayPin = "HIGH") <=> waterState
        /\ (fertilizerRelayPin = "HIGH") <=> fertilizerState

\* C18 witness: the fertilizer was just switched off while the water pump is on
C18_Witness ==
    /\ ev.op \in {"fertilizer", "sensors"} /\ ~fertilizerState
    /\ fertilizerRelayPin = "LOW" /\ previousFertilizerMillis > 0
    /\ waterState /\ waterRelayPin = "HIGH"

\* C19 (initial state): before the first loop iteration both actuators are
\* Idle, both relay outputs are LOW, the SMS queue is empty and the trigger
\* ledger is empty.
C19_InitialState ==
    tick = 0 =>
        /\ ~waterState /\ ~fertilizerState
        /\ waterRelayPin = "LOW" /\ fertilizerRelayPin = "LOW"
        /\ smsQueue = <<>> /\ triggeredSchedules = {}

\* C19 witness: setup() has run and loop() has not started
C19_Witness == pc = "loop" /\ tick = 0 /\ ev.op = "setup" /\ gsmStatus # "GSM_WAITING"

\* C20 (drain gating): a drain step attempts the head of a non-empty queue
\* only, at least SMS_RETRY_INTERVAL after lastSMSAttempt and not before the
\* head's nextAttempt; two attempts on any messages, the earlier one
\* successful or not, are at least SMS_RETRY_INTERVAL apart, so no loop
\* iteration makes two.
C20_DrainGating ==
    (ev.op = "sms" /\ ev.attempted) =>
        /\ ev.queued >= 1 /\ ev.seq = ev.headSeq
        /\ ev.since >= SMS_RETRY_INTERVAL
        /\ ev.at >= ev.nextAttempt
        /\ ev.prev # -1 => Sub32(ev.at, ev.prev) >= SMS_RETRY_INTERVAL

\* C20 witness: after an attempt on one message, the first attempt on the next
C20_Witness ==
    /\ ev.op = "sms" /\ ev.attempted /\ ev.tries = 1
    /\ ev.prev # -1 /\ ev.headSeq >= 2
    /\ ev.nextAttempt <= ev.prev

\* C21 (no attempt consumed while not Ready): a drain step entered with the
\* session not Ready leaves the queue (its messages, their retries and
\* nextAttempt) and lastSMSAttempt unchanged; apart from what the recovery
\* check writes (gsmStatus, lastGSMRetry) it changes nothing of the program.
C21_NoAttemptWhileNotReady ==
    [][(pc = "sms" /\ gsmStatus # "GSM_READY") =>
          /\ UNCHANGED <<smsQueue, lastSMSAttempt, attemptAt, departed, nextSeq>>
          /\ UNCHANGED <<clockVars, sensorVars, scheduleVars, waterVars, fertVars>>]_vars

\* C21 witness: a message that has failed once is due again, the session is
\* in Error and the drain step has left the message as it was
C21_Witness ==
    /\ ev.op = "sms" /\ ev.entry = "GSM_ERROR" /\ ~ev.attempted
    /\ smsQueue # <<>> /\ smsQueue[1].retries >= 1
    /\ millis >= smsQueue[1].nextAttempt
    /\ Sub32(millis, lastSMSAttempt) >= SMS_RETRY_INTERVAL

\* C22 (recipient iteration): in one attempt the recipients are addressed in
\* list order from the first; every recipient before the last one addressed
\* was a soft failure; the iteration ends at a success (the attempt succeeds),
\* at a hard failure (the session is in Error, the attempt fails) or at the end
\* of the list.
C22_RecipientIteration ==
    (ev.op = "sms" /\ ev.attempted) =>
        LET n == Len(ev.calls) IN
        /\ n >= 1 /\ n <= numPhones
        /\ \A k \in 1..n : ev.calls[k][1] = k
        /\ \A k \in 1..(n - 1) : ev.calls[k][2] = "SoftFailure"
        /\ ev.success <=> ev.calls[n][2] = "Success"
        /\ ev.calls[n][2] = "HardFailure" => gsmStatus = "GSM_ERROR"
        /\ ev.calls[n][2] = "SoftFailure" => (n = numPhones /\ gsmStatus = "GSM_READY")
        /\ ev.calls[n][2] = "Success" => gsmStatus = "GSM_READY"

\* C22 witness: the first recipient failed hard, the second was not addressed
C22_Witness ==
    /\ ev.op = "sms" /\ ev.attempted
    /\ ev.calls = <<(<<1, "HardFailure">>)>>
    /\ gsmStatus = "GSM_ERROR" /\ ~ev.success

\* C23 (attempt bookkeeping): after a failed attempt that does not drop the
\* message the queue is what it was, with the head's retries one higher and its
\* nextAttempt = now + SMS_RETRY_INTERVAL; after a successful attempt the queue
\* is what it was without its head.
C23_AttemptBookkeeping ==
    (ev.op = "sms" /\ ev.attempted) =>
        /\ ev.success => smsQueue = Tail(ev.before)
        /\ (~ev.success /\ ~ev.popped) =>
              /\ Len(smsQueue) = Len(ev.before)
              /\ \A i \in 2..Len(smsQueue) : smsQueue[i] = ev.before[i]
              /\ smsQueue[1].seq = ev.before[1].seq
              /\ smsQueue[1].message = ev.before[1].message
              /\ smsQueue[1].retries = ev.before[1].retries + 1
              /\ smsQueue[1].nextAttempt = Add32(ev.at, SMS_RETRY_INTERVAL)

\* C23 witness: a second failed attempt on the head, with a message behind it
C23_Witness ==
    /\ ev.op = "sms" /\ ev.attempted /\ ~ev.success /\ ~ev.popped
    /\ Len(smsQueue) >= 2 /\ smsQueue[1].retries = 2 /\ smsQueue[2].retries = 0

\* C24 (session transitions): once setup() has run the session is Ready or
\* Error; it goes from Ready to Error only in a drain attempt whose last send
\* failed hard, from Error to Ready only in a step that ran a recovery
\* handshake, and no step that starts with the session Ready runs a handshake.
C24_SessionTransitions ==
    [][/\ pc # "setup" => gsmStatus \in {"GSM_READY", "GSM_ERROR"}
       /\ gsmStatus' \in {"GSM_READY", "GSM_ERROR"}
       /\ (gsmStatus = "GSM_READY" /\ gsmStatus' = "GSM_ERROR") =>
             /\ pc = "sms" /\ ev'.attempted
             /\ ev'.calls[Len(ev'.calls)][2] = "HardFailure"
       /\ (gsmStatus = "GSM_ERROR" /\ gsmStatus' = "GSM_READY") =>
             /\ pc \in {"gsm", "sms"}
             /\ Len(recoveries') = Len(recoveries) + 1
       /\ gsmStatus = "GSM_READY" => recoveries' = recoveries]_vars

\* C24 witness: a send failed hard, and a recovery handshake has made the
\* session Ready again with the message still queued
C24_Witness ==
    /\ ev.op = "gsm" /\ ev.entry = "GSM_ERROR" /\ ev.recovery.ran
    /\ gsmStatus = "GSM_READY"
    /\ smsQueue # <<>> /\ smsQueue[1].retries >= 1

\* the ledger the evaluation just made worked on, after its reset
LedgerAtEntry == IF ev.cleared THEN {} ELSE ev.stale

\* the schedule at position i found its ledger key marked when its turn came
MarkedAtTurn(i) ==
    \/ LedgerKey(schedules[i]) \in LedgerAtEntry
    \/ \E j \in 1..(i - 1) :
          /\ LedgerKey(schedules[j]) = LedgerKey(schedules[i])
          /\ \E k \in 1..Len(ev.fired) : ev.fired[k] = schedules[j].id

\* the evaluation just made fired the schedule at position i
FiredNow(i) == \E k \in 1..Len(ev.fired) : ev.fired[k] = schedules[i].id

\* C25 (recurrence matching): an evaluation fires an enabled schedule that is
\* not marked iff its time is the current HH:MM and its recurrence contains
\* today (weekly: the weekday, case-insensitive; monthly: the day of the
\* month), whether the schedule is a watering or a fertilizing one.
C25_RecurrenceMatching ==
    ev.op = "sched" =>
        \A i \in 1..Len(schedules) :
            (schedules[i].enabled /\ ~MarkedAtTurn(i)) =>
                (FiredNow(i) <=> Eligible(schedules[i], millis))

\* the ledger keys of the schedules the step's evaluation fires
FiredKeys(fired) == {toInt(fired[k]) : k \in 1..Len(fired)}

ScheduledRun == waterRun.reason = "Scheduled watering"

\* C28 (duration stop uses the firing schedule): an actuator update that
\* finds watering Running in a run started by the fire of a schedule S stops
\* it iff S.duration minutes have elapsed since the start, whatever the
\* schedule list holds at the time of the update.
C28_DurationOfFiringSchedule ==
    (ev.op = "sensors" /\ ev.managed /\ ev.wasRunning /\ ScheduledRun) =>
        (ev.stopped <=> Sub32(currentMillis, previousWaterMillis) >= waterRun.arg * MINUTE)

\* C29 (schedule refresh): a refresh that received a list makes the schedule
\* list that list, and a refresh changes nothing of the ledger, the last-seen
\* minute, the actuators, the SMS queue and the GSM session; an evaluation
\* that follows a refresh in the same minute does not fire a schedule that has
\* fired in that minute.
C29_RefreshReplaces ==
    [][/\ pc = "poll" =>
             /\ (ev'.polled /\ ev'.kind # "failed") => schedules' = ev'.list
             /\ UNCHANGED <<triggeredSchedules, currentMinute, isScheduledDate>>
             /\ UNCHANGED <<waterVars, fertVars, smsQueue, gsmVars>>
       /\ (pc = "sched" /\ lastPollTime = currentMillis /\ CalMinute(millis) = fireMinute) =>
             \A k \in 1..Len(ev'.fired) : fireCount[ev'.fired[k]] = 0]_vars

\* C29 witness: a refresh has replaced a list by a different one while a
\* mark is in the ledger, the pump runs and a notification is queued
C29_Witness ==
    /\ ev.op = "poll" /\ ev.polled /\ ev.kind = "list"
    /\ ev.old # <<>> /\ ev.old # ev.list /\ schedules = ev.list
    /\ triggeredSchedules # {} /\ waterState /\ smsQueue # <<>>

\* C30 (one notification per transition): a step appends at least as many
\* notifications as actuators change state in it, and exactly as many unless
\* it is an evaluation that fires a schedule; what a step appends goes behind
\* the messages queued before, which stay as they are, with retries 0. (A loop
\* iteration is a sequence of such steps.)
C30_OneNotificationPerTransition ==
    [][LET N == nextSeq' - nextSeq
           T == (IF waterState' # waterState THEN 1 ELSE 0)
                    + (IF fertilizerState' # fertilizerState THEN 1 ELSE 0)
           F == IF pc = "sched" THEN Len(ev'.fired) ELSE 0
       IN /\ N >= T
          /\ F = 0 => N = T
          /\ N > 0 =>
                /\ Len(smsQueue') = Len(smsQueue) + N
                /\ \A i \in 1..Len(smsQueue) : smsQueue'[i] = smsQueue[i]
                /\ \A k \in 1..N :
                      /\ smsQueue'[Len(smsQueue) + k].seq = nextSeq + k - 1
                      /\ smsQueue'[Len(smsQueue) + k].retries = 0]_vars

\* C30 witness: the pump was stopped and the notification of the stop is the
\* last of the queue, behind an older one
C30_Witness ==
    /\ ev.op \in {"water", "sensors"} /\ ev.stopped /\ ~waterState
    /\ Len(smsQueue) >= 2
    /\ smsQueue[Len(smsQueue)].message.what = "Watering stopped"
    /\ smsQueue[Len(smsQueue)].seq = nextSeq - 1

\* a schedule that is enabled and has a recurrence
Live(s) == s.enabled /\ (s.days # NoDays \/ s.calendarDays # NoDays)

\* C26 (inert schedules): a disabled schedule, a schedule that is not in the
\* current list and a schedule without recurrence cause no ledger mark and no
\* start: every schedule an evaluation fires is an enabled schedule of the
\* current list with a recurrence, every mark an evaluation adds is the mark of
\* such a fire, and the fertilizer block of ESP32.cpp starts a scheduled
\* application only when the current list holds an enabled fertilizing
\* schedule with a recurrence.
C26_InertSchedules ==
    /\ ev.op = "sched" =>
          /\ \A k \in 1..Len(ev.fired) :
                \E i \in 1..Len(schedules) : schedules[i].id = ev.fired[k] /\ Live(schedules[i])
          /\ triggeredSchedules \subseteq (LedgerAtEntry \cup FiredKeys(ev.fired))
    /\ (ev.op = "fertilizer" /\ ev.started) =>
          \E i \in 1..Len(schedules) : schedules[i].type = "fertilizing" /\ Live(schedules[i])

\* C31 (enqueue): queueSMS() on the queue as it is yields the queue with one
\* more entry at its end, with retries 0 and nextAttempt = now, and the entries
\* it had; and a step that calls queueSMS() (the arrival number moves) leaves
\* lastSMSAttempt and the GSM session as they are and gives every new entry
\* nextAttempt = now.
C31_Enqueue ==
    [][/\ LET t == Text("Started watering", "Scheduled watering", -1, 1)
              q == queueSMS(smsQueue, t, nextSeq)
          IN /\ Len(q) = Len(smsQueue) + 1
             /\ \A i \in 1..Len(smsQueue) : q[i] = smsQueue[i]
             /\ q[Len(q)].message = t /\ q[Len(q)].retries = 0
             /\ q[Len(q)].nextAttempt = millis
       /\ nextSeq' > nextSeq =>
             /\ UNCHANGED <<lastSMSAttempt, gsmStatus, lastGSMRetry>>
             /\ Len(smsQueue') = Len(smsQueue) + (nextSeq' - nextSeq)
             /\ \A i \in 1..Len(smsQueue) : smsQueue'[i] = smsQueue[i]
             /\ \A i \in (Len(smsQueue) + 1)..Len(smsQueue') :
                   smsQueue'[i].retries = 0 /\ smsQueue'[i].nextAttempt = millis']_vars

\* C31 witness: a start has put its notification behind a message that has
\* failed once, after an attempt has been made
C31_Witness ==
    /\ \/ ev.op = "sched" /\ ev.enq # <<>>
       \/ ev.op = "fertilizer" /\ ev.started
    /\ Len(smsQueue) >= 2 /\ smsQueue[1].retries >= 1 /\ lastSMSAttempt > 0
    /\ smsQueue[Len(smsQueue)].seq = nextSeq - 1
    /\ smsQueue[Len(smsQueue)].retries = 0
    /\ smsQueue[Len(smsQueue)].nextAttempt = millis

\* the operations of the current loop iteration that have run when the next
\* one to run is p (q: where the walk through loop() stands)
RECURSIVE OpsBefore(_, _, _)
OpsBefore(b, p, q) == IF q = p THEN {} ELSE {q} \cup OpsBefore(b, p, NextPc(b, q))

\* the operations that update the actuators
ActuatorOps(b) == IF b = "ESP32" THEN {"water", "fertilizer"} ELSE {"sensors"}

\* C32 (tick order): in a loop iteration the actuator update has run when the
\* schedule evaluation runs, and the evaluation has run, in this order, before
\* the recovery poll and the drain step: when the evaluation is next, neither
\* the recovery poll nor the drain step of the iteration has run; when the
\* recovery poll is next, the evaluation has run and the drain step has not;
\* when the drain step is next, the evaluation and the recovery poll have run.
C32_TickOrder ==
    LET done == OpsBefore(build, pc, "loop") IN
    /\ pc = "sched" => (ActuatorOps(build) \subseteq done /\ "gsm" \notin done /\ "sms" \notin done)
    /\ pc = "gsm" => (ActuatorOps(build) \subseteq done /\ "sched" \in done /\ "sms" \notin done)
    /\ pc = "sms" => ("sched" \in done /\ "gsm" \in done)

\* C33 (start only from Idle): a step that finds the water actuator Running
\* and leaves it Running keeps started_at and enqueues no 'started'
\* notification of watering.
C33_StartOnlyFromIdle ==
    [][(waterState /\ waterState') =>
          /\ previousWaterMillis' = previousWaterMillis
          /\ \A i \in (Len(smsQueue) + 1)..Len(smsQueue') :
                nextSeq' > nextSeq => smsQueue'[i].message.what # "Started watering"]_vars

\* C34 (no start/stop flapping): with the moisture reading and the schedule
\* list as they are, the auto rule's start condition does not hold when the
\* water actuator's update has just stopped watering for 'target moisture
\* reached', whatever the threshold of the schedule is.
C34_NoFlapping ==
    ~(/\ ev.op = "water" /\ ev.stopped
      /\ ReasonKind(ev.reason) = "target moisture reached"
      /\ AutoStartDue(schedules, moisturePercent))

\* C35 (one run per fertilizing fire): the fertilizer has not gone from Idle
\* to Running more often than fertilizing schedules have fired, so once the
\* run of a fire is over the fertilizer stays Idle until a schedule fires again.
C35_OneRunPerFire == fertilizerDue >= 0

\* C38 (failed refresh keeps the schedules): a refresh that yields no schedule
\* list, because no response came, the response did not parse, or the parsed
\* response carries no schedules array, leaves the schedule list as it was.
C38_FailedRefreshKeeps ==
    (ev.op = "poll" /\ ev.polled /\ ev.kind \in {"failed", "no_array"})
        => schedules = ev.old

\* C39 (no duplicate delivery): an attempt is made on a message that has not
\* left the queue before; within the attempt no recipient is addressed after a
\* successful send; and an attempt with a successful send removes the message,
\* so that it is in the queue no more and no later attempt is made on it.
C39_NoDuplicateDelivery ==
    [][/\ departed' >= departed
       /\ (pc = "sms" /\ ev'.attempted) =>
             /\ ev'.seq > departed
             /\ \A k \in 1..(Len(ev'.calls) - 1) : ev'.calls[k][2] # "Success"
             /\ ev'.success =>
                   /\ departed' = ev'.seq
                   /\ \A i \in 1..Len(smsQueue') : smsQueue'[i].seq > ev'.seq]_vars

\* C39 witness: a message was delivered at its second attempt, to the second
\* recipient, and left the queue, in which another message waits
C39_Witness ==
    /\ ev.op = "sms" /\ ev.attempted /\ ev.success /\ ev.tries >= 2
    /\ Len(ev.calls) = 2
    /\ departed = ev.seq
    /\ smsQueue # <<>> /\ smsQueue[1].seq = ev.seq + 1

\* C40 (timer wraparound): on a drain step with the session Ready, a head
\* message that has failed before is attempted exactly when SMS_RETRY_INTERVAL
\* has elapsed since that failed attempt, the elapsed time being counted
\* across the wraparound of millis().
C40_RetryAcrossWrap ==
    [][(/\ pc = "sms" /\ gsmStatus = "GSM_READY"
        /\ smsQueue # <<>> /\ smsQueue[1].retries >= 1)
          => (ev'.attempted <=> Sub32(millis, attemptAt) >= SMS_RETRY_INTERVAL)]_vars

LongestRunTicks == (2 * MINUTE + READ_INTERVAL) \div Ms(30000) + 1

====
